---- MODULE Spec2Model ----
(***************************************************************************)
(* Model of cdp_ann_arbor_backend/scraper.py: the Ann Arbor adapter of the *)
(* Legistar scraper.  Four components, which share no state:               *)
(*   - get_minutes_item       (name normalisation)                         *)
(*   - get_vote_decision      (vote resolution)                            *)
(*   - fix_event_minutes / get_event_minutes (minutes-item assembly)       *)
(*   - get_content_uris       (media lookup chain, modelled step by step)  *)
(* Each component has its own specification over the shared variables; the *)
(* variables of the other components keep their initial values.            *)
(*                                                                         *)
(* Text is a sequence of tokens: " " is one whitespace character, every    *)
(* other token is a run of non-whitespace characters.  Python's None is    *)
(* None for enumerated values and NoneStr where text is expected.          *)
(***************************************************************************)
EXTENDS Integers, Sequences, FiniteSets, TLC

VARIABLES
    nameCall,     \* last get_minutes_item call: raw item and returned MinutesItem
    voteCalls,    \* get_vote_decision calls made so far: vote, decision, result
    fixCall,      \* last fix_event_minutes call: arguments and returned item
    minutesCall,  \* last get_event_minutes call: raw items, hook answers, result
    pc,           \* get_content_uris: control location
    legistar_ev,  \* get_content_uris: the event (its EventMedia value)
    show_info_uri,\* get_content_uris: local, Unbound until assigned
    show_info,    \* get_content_uris: local, payload of the show request
    vod_id,       \* get_content_uris: local
    vod_info,     \* get_content_uris: local, payload of the VOD request
    requests,     \* get_content_uris: catalog requests issued by this call
    outcome       \* get_content_uris: how the call ended

vars == <<nameCall, voteCalls, fixCall, minutesCall, pc, legistar_ev,
          show_info_uri, show_info, vod_id, vod_info, requests, outcome>>

nameVars == <<nameCall>>
voteVars == <<voteCalls>>
minutesVars == <<fixCall, minutesCall>>
mediaVars == <<pc, legistar_ev, show_info_uri, show_info, vod_id, vod_info,
               requests, outcome>>

\* ------------------------------------------------------------------ bounds
MaxLen == 3         \* tokens in a raw agenda number or minutes name
MaxActionLen == 2   \* tokens in a raw action name
MaxVoteCalls == 2   \* get_vote_decision calls compared with each other
MaxItems == 1       \* raw event items handed to get_event_minutes
MaxVotes == 1       \* raw votes of one event item
MaxVods == 2        \* VOD references listed by a show
MaxUrlLen == 3      \* tokens in a playable URL returned by the catalog

\* ------------------------------------------------------------------ values
None == "None"
NoneStr == <<"None">>
Absent == [none |-> TRUE]
NoCall == [called |-> FALSE]

RECURSIVE SeqsUpTo(_, _)
SeqsUpTo(S, n) ==
    IF n = 0 THEN {<<>>}
    ELSE LET shorter == SeqsUpTo(S, n - 1)
         IN  shorter \cup {Append(s, t) : s \in {x \in shorter : Len(x) = n - 1}, t \in S}

\* Python truthiness of an Optional[str]
Truthy(s) == s # NoneStr /\ s # <<>>

\* ------------------------------------------------------- get_minutes_item
RECURSIVE LStrip(_)
LStrip(s) == IF s # <<>> /\ Head(s) = " " THEN LStrip(Tail(s)) ELSE s

RECURSIVE RStrip(_)
RStrip(s) == IF s # <<>> /\ s[Len(s)] = " " THEN RStrip(SubSeq(s, 1, Len(s) - 1)) ELSE s

RECURSIVE Collapse(_)
Collapse(s) ==
    IF Len(s) < 2 THEN s
    ELSE IF s[1] = " " /\ s[2] = " " THEN Collapse(Tail(s))
    ELSE <<s[1]>> \o Collapse(Tail(s))

\* cdp_scrapers.scraper_utils.str_simplified: a non-str is returned as it is;
\* a str is stripped and its runs of whitespace become one space.
str_simplified(input_str) ==
    IF input_str = NoneStr THEN input_str
    ELSE Collapse(RStrip(LStrip(input_str)))

\* action_to_present_tense_map.get(action, action)
action_to_present_tense_map(action) ==
    CASE action = <<"Approved">>  -> <<>>
      [] action = <<"Postponed">> -> <<"Postpone">>
      [] action = <<"Referred">>  -> <<"Refer">>
      [] OTHER -> action

\* faulty variant: ": ".join(parts), the filter on empty parts forgotten
RECURSIVE JoinParts_KeepEmpty(_)
JoinParts_KeepEmpty(parts) ==
    IF parts = <<>> THEN <<>>
    ELSE LET head == IF Head(parts) = NoneStr THEN <<>> ELSE Head(parts)
         IN  IF Len(parts) = 1 THEN head
             ELSE head \o <<":", " ">> \o JoinParts_KeepEmpty(Tail(parts))

\* ": ".join(p for p in parts if p)
RECURSIVE JoinParts(_)
JoinParts(parts) ==
    IF parts = <<>> THEN <<>>
    ELSE IF ~Truthy(Head(parts)) THEN JoinParts(Tail(parts))
    ELSE LET rest == JoinParts(Tail(parts))
         IN  IF rest = <<>> THEN Head(parts) ELSE Head(parts) \o <<":", " ">> \o rest

\* LegistarScraper.get_none_if_empty on a MinutesItem: name is its required attribute
get_none_if_empty_minutes_item(model) ==
    IF model.name = <<>> THEN Absent ELSE model

get_minutes_item(legistar_ev_item) ==
    LET action == str_simplified(legistar_ev_item.EventItemActionName)
        normalized_action == action_to_present_tense_map(action)
        minutes_item_name_parts ==
            << normalized_action,
               str_simplified(legistar_ev_item.EventItemAgendaNumber),
               str_simplified(legistar_ev_item.LEGISTAR_MINUTE_NAME) >>
    IN  get_none_if_empty_minutes_item(
            [external_source_id |-> legistar_ev_item.LEGISTAR_MINUTE_EXT_ID,
             name |-> JoinParts(minutes_item_name_parts)])

ActionTokens == {" ", "Approved", "Postponed", "Referred", "Tabled"}
AgendaTokens == {" ", "1"}
NameTokens == {" ", ":", "a"}

RawActions == SeqsUpTo(ActionTokens, MaxActionLen) \cup {NoneStr}
RawAgendaNumbers == SeqsUpTo(AgendaTokens, MaxLen) \cup {NoneStr}
RawNames == SeqsUpTo(NameTokens, MaxLen) \cup {NoneStr}

NameInit == nameCall = NoCall

\* get_minutes_item keeps no state between calls: a behaviour makes one call
GetMinutesItem ==
    /\ ~nameCall.called
    /\ \E a \in RawActions, n \in RawAgendaNumbers, m \in RawNames :
         LET item == [EventItemActionName |-> a, EventItemAgendaNumber |-> n,
                      LEGISTAR_MINUTE_NAME |-> m, LEGISTAR_MINUTE_EXT_ID |-> "101"]
         IN  nameCall' = [called |-> TRUE, legistar_ev_item |-> item,
                          minutes_item |-> get_minutes_item(item)]
    /\ UNCHANGED <<voteVars, minutesVars, mediaVars>>

\* ------------------------------------------------------ get_vote_decision
PASSED == "Passed"
FAILED == "Failed"
APPROVE == "Approve"
REJECT == "Reject"
ABSENT_NON_VOTING == "Absent (Non-Voting)"

VoteValueNames == {None, "Yes", "Nay", "Absent"}
VoteValueIds == {None, "16"}
MinutesItemDecisions == {None, PASSED, FAILED}
RawVotes == [LEGISTAR_VOTE_VAL_NAME : VoteValueNames, LEGISTAR_VOTE_VAL_ID : VoteValueIds,
             LEGISTAR_VOTE_EXT_ID : {"v1"}, LEGISTAR_VOTE_PERSONS : {"p1"}]

\* LegistarScraper.get_vote_decision, the generic matcher of the base class,
\* configured with vote_approve_pattern / vote_reject_pattern: no decision for
\* a vote without a value name, else the pattern found in the value name.
super_get_vote_decision(legistar_vote) ==
    CASE legistar_vote.LEGISTAR_VOTE_VAL_NAME = None -> None
      [] legistar_vote.LEGISTAR_VOTE_VAL_NAME = "Yes" -> APPROVE
      [] legistar_vote.LEGISTAR_VOTE_VAL_NAME = "Nay" -> REJECT
      [] OTHER -> ABSENT_NON_VOTING

\* faulty variant: the FAILED branch of the null-vote inference is missing
get_vote_decision_NoReject(legistar_vote, minutes_item_decision) ==
    IF /\ legistar_vote.LEGISTAR_VOTE_VAL_NAME = None
       /\ legistar_vote.LEGISTAR_VOTE_VAL_ID = None
       /\ minutes_item_decision = PASSED
    THEN APPROVE
    ELSE super_get_vote_decision(legistar_vote)

\* faulty variant: a vote counts as null when its name or its id is null
get_vote_decision_Or(legistar_vote, minutes_item_decision) ==
    IF /\ \/ legistar_vote.LEGISTAR_VOTE_VAL_NAME = None
          \/ legistar_vote.LEGISTAR_VOTE_VAL_ID = None
       /\ minutes_item_decision = PASSED
    THEN APPROVE
    ELSE IF /\ \/ legistar_vote.LEGISTAR_VOTE_VAL_NAME = None
               \/ legistar_vote.LEGISTAR_VOTE_VAL_ID = None
            /\ minutes_item_decision = FAILED
    THEN REJECT
    ELSE super_get_vote_decision(legistar_vote)

get_vote_decision(legistar_vote, minutes_item_decision) ==
    IF /\ legistar_vote.LEGISTAR_VOTE_VAL_NAME = None
       /\ legistar_vote.LEGISTAR_VOTE_VAL_ID = None
       /\ minutes_item_decision = PASSED
    THEN APPROVE
    ELSE IF /\ legistar_vote.LEGISTAR_VOTE_VAL_NAME = None
            /\ legistar_vote.LEGISTAR_VOTE_VAL_ID = None
            /\ minutes_item_decision = FAILED
    THEN REJECT
    ELSE super_get_vote_decision(legistar_vote)

VoteInit == voteCalls = <<>>

GetVoteDecision ==
    /\ Len(voteCalls) < MaxVoteCalls
    /\ \E v \in RawVotes, d \in MinutesItemDecisions :
         voteCalls' = Append(voteCalls,
                             [legistar_vote |-> v, minutes_item_decision |-> d,
                              decision |-> get_vote_decision(v, d)])
    /\ UNCHANGED <<nameVars, minutesVars, mediaVars>>

\* LegistarScraper.get_none_if_empty on a Vote: person and decision are required
get_none_if_empty_vote(model) ==
    IF model.decision = None \/ model.person = None THEN Absent ELSE model

\* cdp_scrapers.scraper_utils.reduced_list without its None-for-empty result:
\* an empty sequence stands for both None and [] (the code tests truthiness only)
RECURSIVE reduced_list(_)
reduced_list(input_list) ==
    IF input_list = <<>> THEN <<>>
    ELSE IF Head(input_list) = Absent THEN reduced_list(Tail(input_list))
    ELSE <<Head(input_list)>> \o reduced_list(Tail(input_list))

\* LegistarScraper.get_person: the voter's record, looked up by the base class
get_person(legistar_person) == legistar_person

get_votes(legistar_votes, minutes_item_decision) ==
    reduced_list(
        [i \in 1..Len(legistar_votes) |->
            get_none_if_empty_vote(
                [decision |-> get_vote_decision(legistar_votes[i], minutes_item_decision),
                 external_source_id |-> legistar_votes[i].LEGISTAR_VOTE_EXT_ID,
                 person |-> get_person(legistar_votes[i].LEGISTAR_VOTE_PERSONS)])])

\* ------------------------------------------- fix_event_minutes, get_event_minutes
ADOPTED == "Adopted"
IN_PROGRESS == "In Progress"
REJECTED == "Rejected"

\* Python truthiness of an Optional[str] held as one value
TruthyValue(v) == v # None /\ v # ""

\* faulty variant: result_status is forced without testing that it is unset
fix_event_minutes_Overwrite(ev_minutes_item, legistar_ev_item) ==
    IF ev_minutes_item = Absent THEN ev_minutes_item
    ELSE IF /\ ev_minutes_item.matter # Absent
            /\ ev_minutes_item.votes # <<>>
            /\ TruthyValue(legistar_ev_item.LEGISTAR_MATTER_STATUS)
    THEN [ev_minutes_item EXCEPT !.matter.result_status = IN_PROGRESS]
    ELSE ev_minutes_item

fix_event_minutes(ev_minutes_item, legistar_ev_item) ==
    IF ev_minutes_item = Absent THEN ev_minutes_item
    ELSE IF /\ ev_minutes_item.matter # Absent
            /\ ~TruthyValue(ev_minutes_item.matter.result_status)
            /\ ev_minutes_item.votes # <<>>
            /\ TruthyValue(legistar_ev_item.LEGISTAR_MATTER_STATUS)
    THEN [ev_minutes_item EXCEPT !.matter.result_status = IN_PROGRESS]
    ELSE ev_minutes_item

\* raw EventItemMatterStatus values: null, empty, one per matter_*_pattern of
\* the constructor, and one that no pattern matches
MatterStatuses == {None, "", "Adopted", "Heard", "Defeated", "Unclassified"}
ResultStatuses == {None, ADOPTED, IN_PROGRESS, REJECTED}

Votes == [decision : {APPROVE, REJECT}, external_source_id : {"v1"}, person : {"p1"}]
Matters == {Absent} \cup [external_source_id : {"m1"}, result_status : ResultStatuses]
MinutesItems == {Absent, [external_source_id |-> "101", name |-> <<"a">>]}
EventMinutesItems ==
    {Absent} \cup
    [index : {1}, minutes_item : MinutesItems, votes : SeqsUpTo(Votes, MaxVotes),
     matter : Matters, decision : MinutesItemDecisions,
     supporting_files : {<<>>, <<"f1">>}]

\* fix_event_minutes keeps no state between calls: a behaviour makes one call
FixEventMinutes ==
    /\ ~fixCall.called
    /\ \E emi \in EventMinutesItems, status \in MatterStatuses :
         LET item == [LEGISTAR_MATTER_STATUS |-> status]
         IN  fixCall' = [called |-> TRUE, ev_minutes_item |-> emi,
                         legistar_ev_item |-> item,
                         cleaned_emi |-> fix_event_minutes(emi, item)]
    /\ UNCHANGED <<minutesCall, nameVars, voteVars, mediaVars>>

\* LegistarScraper.get_minutes_item_decision: the item's passed flag, classified
get_minutes_item_decision(flag) ==
    CASE flag = "Pass" -> PASSED
      [] flag = "Fail" -> FAILED
      [] OTHER -> None

\* LegistarScraper.get_matter_status with matter_in_progress_pattern and
\* matter_rejected_pattern of the constructor
get_matter_status(status) ==
    CASE status = "Adopted"  -> ADOPTED
      [] status = "Heard"    -> IN_PROGRESS
      [] status = "Defeated" -> REJECTED
      [] OTHER -> None

\* LegistarScraper.get_matter: no Matter for an item that references none
get_matter(legistar_ev_item) ==
    IF legistar_ev_item.EventItemMatterId = None THEN Absent
    ELSE [external_source_id |-> legistar_ev_item.EventItemMatterId,
          result_status |-> get_matter_status(legistar_ev_item.LEGISTAR_MATTER_STATUS)]

\* LegistarScraper.get_event_supporting_files
get_event_supporting_files(attachments) == attachments

\* LegistarScraper.filter_event_minutes: the item, or None when the base class
\* judges it unimportant (keep is the base class's verdict)
filter_event_minutes(ev_minutes_item, keep) ==
    IF keep THEN ev_minutes_item ELSE Absent

\* LegistarScraper.get_none_if_empty on an EventMinutesItem: minutes_item is required
get_none_if_empty_event_minutes_item(model) ==
    IF model = Absent THEN Absent
    ELSE IF model.minutes_item = Absent THEN Absent
    ELSE model

get_event_minutes(legistar_ev_items, keeps) ==
    reduced_list(
        [i \in 1..Len(legistar_ev_items) |->
            LET item == legistar_ev_items[i]
            IN  get_none_if_empty_event_minutes_item(
                    fix_event_minutes(
                        filter_event_minutes(
                            [index |-> item.LEGISTAR_EV_INDEX,
                             minutes_item |-> get_minutes_item(item),
                             votes |-> get_votes(
                                 item.LEGISTAR_EV_VOTES,
                                 get_minutes_item_decision(item.LEGISTAR_EV_MINUTE_DECISION)),
                             matter |-> get_matter(item),
                             decision |-> get_minutes_item_decision(
                                 item.LEGISTAR_EV_MINUTE_DECISION),
                             supporting_files |-> get_event_supporting_files(
                                 item.LEGISTAR_EV_ATTACHMENTS)],
                            keeps[i]),
                        item))])

VoiceVote == [LEGISTAR_VOTE_VAL_NAME |-> None, LEGISTAR_VOTE_VAL_ID |-> None,
              LEGISTAR_VOTE_EXT_ID |-> "v1", LEGISTAR_VOTE_PERSONS |-> "p1"]

\* raw EventItems whose position in the list is i
RawEventItems(i) ==
    [EventItemActionName : {<<"Approved">>}, EventItemAgendaNumber : {NoneStr},
     LEGISTAR_MINUTE_NAME : {<<>>, <<"a">>}, LEGISTAR_MINUTE_EXT_ID : {"101"},
     LEGISTAR_EV_INDEX : {i}, LEGISTAR_EV_VOTES : SeqsUpTo({VoiceVote}, MaxVotes),
     LEGISTAR_EV_MINUTE_DECISION : {None, "Pass"},
     LEGISTAR_EV_ATTACHMENTS : {<<>>},
     EventItemMatterId : {None, "m1"},
     LEGISTAR_MATTER_STATUS : MatterStatuses \ {"Defeated"}]

RECURSIVE RawEventItemLists(_)
RawEventItemLists(n) ==
    IF n = 0 THEN {<<>>}
    ELSE {Append(l, item) : l \in RawEventItemLists(n - 1), item \in RawEventItems(n)}

MinutesInit == fixCall = NoCall /\ minutesCall = NoCall

\* get_event_minutes keeps no state between calls: a behaviour makes one call
GetEventMinutes ==
    /\ ~minutesCall.called
    /\ \E n \in 0..MaxItems :
         \E items \in RawEventItemLists(n), keeps \in [1..n -> BOOLEAN] :
            minutesCall' = [called |-> TRUE, legistar_ev_items |-> items,
                            keeps |-> keeps,
                            event_minutes |-> get_event_minutes(items, keeps)]
    /\ UNCHANGED <<fixCall, nameVars, voteVars, mediaVars>>

\* ------------------------------------------------------- get_content_uris
Unbound == [unbound |-> TRUE]        \* a local that no assignment has reached
Unassigned == [kind |-> "unassigned"]
Pending == [kind |-> "pending"]
Return(value) == [kind |-> "return", value |-> value]
Raise(exc) == [kind |-> "raise", exc |-> exc]

NotAStr == <<"NotAStr">>             \* a truthy EventMedia that is no str
MediaUrls ==
    { NoneStr, <<>>, NotAStr,
      <<"http:", "/", "/", "[">>,
      <<"https:", "/", "/", "host", "/", "show", "/", "12">>,
      <<"https:", "/", "/", "host", "/", "show", "/">> }

VodIds == {"7", "8"}
UrlTokens == {"/", "a", "video.mp4"}

\* what the show request can answer: a transport or JSON failure, a payload
\* without show.vods, or a payload whose show.vods is a list of ids
ShowResponses ==
    {[kind |-> "error"], [kind |-> "malformed"]}
    \cup [kind : {"ok"}, vods : SeqsUpTo(VodIds, MaxVods)]

\* what the VOD request can answer: a failure, or a JSON value that is not an
\* object, lacks "vod", has a "vod" that is no mapping, lacks "url", has a
\* "url" that is no str, or has a str "url"
VodResponses ==
    [kind : {"error", "not_object", "no_vod", "vod_not_mapping", "no_url", "url_not_str"}]
    \cup [kind : {"ok"}, url : SeqsUpTo(UrlTokens, MaxUrlLen)]

\* urllib.parse.urlparse raises on a non-str and on an unbalanced "["
urlparse_raises(url) == url = NotAStr \/ \E i \in 1..Len(url) : url[i] = "["

RECURSIVE LastSlash(_)
LastSlash(s) ==
    IF s = <<>> THEN 0
    ELSE IF s[Len(s)] = "/" THEN Len(s)
    ELSE LastSlash(SubSeq(s, 1, Len(s) - 1))

\* s.split("/")[-1]
LastSegment(s) == SubSeq(s, LastSlash(s) + 1, Len(s))

\* s.rsplit("/", maxsplit=1)[0]
RSplitHead(s) == IF LastSlash(s) = 0 THEN s ELSE SubSeq(s, 1, LastSlash(s) - 1)

ContentURIs(video_uri, caption_uri) ==
    [video_uri |-> video_uri, caption_uri |-> caption_uri]

MediaInit ==
    /\ pc = "idle"
    /\ legistar_ev = [EventMedia |-> NoneStr]
    /\ show_info_uri = Unbound
    /\ show_info = Unassigned
    /\ vod_id = None
    /\ vod_info = Unassigned
    /\ requests = <<>>
    /\ outcome = Pending

\* faulty variant: the "if not media_url" early return is missing
CallGetContentUris_NoEarlyReturn ==
    /\ pc \in {"idle", "done"}
    /\ \E media_url \in MediaUrls : legistar_ev' = [EventMedia |-> media_url]
    /\ pc' = "parse"
    /\ outcome' = Pending
    /\ show_info_uri' = Unbound
    /\ show_info' = Unassigned
    /\ vod_id' = None
    /\ vod_info' = Unassigned
    /\ requests' = <<>>
    /\ UNCHANGED <<nameVars, voteVars, minutesVars>>

\* the call, down to the "if not media_url" test
CallGetContentUris ==
    /\ pc \in {"idle", "done"}
    /\ \E media_url \in MediaUrls :
         /\ legistar_ev' = [EventMedia |-> media_url]
         /\ IF ~Truthy(media_url)
            THEN pc' = "done" /\ outcome' = Return(<<>>)
            ELSE pc' = "parse" /\ outcome' = Pending
    /\ show_info_uri' = Unbound
    /\ show_info' = Unassigned
    /\ vod_id' = None
    /\ vod_info' = Unassigned
    /\ requests' = <<>>
    /\ UNCHANGED <<nameVars, voteVars, minutesVars>>

\* the first try block: its handler logs and falls through
ParseMediaUrl ==
    /\ pc = "parse"
    /\ show_info_uri' =
         IF urlparse_raises(legistar_ev.EventMedia) THEN Unbound
         ELSE [endpoint |-> "shows", id |-> LastSegment(legistar_ev.EventMedia)]
    /\ pc' = "fetch_show"
    /\ UNCHANGED <<legistar_ev, show_info, vod_id, vod_info, requests, outcome,
                   nameVars, voteVars, minutesVars>>

\* the second try block: reading the unbound show_info_uri raises inside the
\* try, and the handler's f-string reads it again, outside any try
FetchShow ==
    /\ pc = "fetch_show"
    /\ IF show_info_uri = Unbound
       THEN /\ outcome' = Raise("UnboundLocalError")
            /\ pc' = "done"
            /\ UNCHANGED <<show_info, requests>>
       ELSE \E resp \in ShowResponses :
            /\ requests' = Append(requests, [uri |-> show_info_uri,
                                             ok |-> resp.kind # "error"])
            /\ IF resp.kind = "error"
               THEN pc' = "done" /\ outcome' = Return(<<>>) /\ UNCHANGED show_info
               ELSE pc' = "unpack" /\ show_info' = resp /\ UNCHANGED outcome
    /\ UNCHANGED <<legistar_ev, show_info_uri, vod_id, vod_info,
                   nameVars, voteVars, minutesVars>>

\* faulty variant: the lenient variant, vod_id = show_info["show"]["vods"][0]
UnpackVods_TakeFirst ==
    /\ pc = "unpack"
    /\ IF show_info.kind = "ok" /\ Len(show_info.vods) >= 1
       THEN vod_id' = show_info.vods[1] /\ pc' = "fetch_vod" /\ UNCHANGED outcome
       ELSE pc' = "done" /\ outcome' = Return(<<>>) /\ UNCHANGED vod_id
    /\ UNCHANGED <<legistar_ev, show_info_uri, show_info, vod_info, requests,
                   nameVars, voteVars, minutesVars>>

\* (vod_id,) = show_info["show"]["vods"]
UnpackVods ==
    /\ pc = "unpack"
    /\ IF show_info.kind = "ok" /\ Len(show_info.vods) = 1
       THEN vod_id' = show_info.vods[1] /\ pc' = "fetch_vod" /\ UNCHANGED outcome
       ELSE pc' = "done" /\ outcome' = Return(<<>>) /\ UNCHANGED vod_id
    /\ UNCHANGED <<legistar_ev, show_info_uri, show_info, vod_info, requests,
                   nameVars, voteVars, minutesVars>>

FetchVod ==
    /\ pc = "fetch_vod"
    /\ \E resp \in VodResponses :
         /\ requests' = Append(requests, [uri |-> [endpoint |-> "vods", id |-> vod_id],
                                          ok |-> resp.kind # "error"])
         /\ IF resp.kind = "error"
            THEN pc' = "done" /\ outcome' = Return(<<>>) /\ UNCHANGED vod_info
            ELSE pc' = "extract" /\ vod_info' = resp /\ UNCHANGED outcome
    /\ UNCHANGED <<legistar_ev, show_info_uri, show_info, vod_id,
                   nameVars, voteVars, minutesVars>>

\* the last try block, which handles KeyError alone, and the return
ExtractUrls ==
    /\ pc = "extract"
    /\ outcome' =
         CASE vod_info.kind = "not_object"      -> Raise("TypeError")
           [] vod_info.kind = "no_vod"          -> Return(<<>>)
           [] vod_info.kind = "vod_not_mapping" -> Raise("TypeError")
           [] vod_info.kind = "no_url"          -> Return(<<>>)
           [] vod_info.kind = "url_not_str"     -> Raise("AttributeError")
           [] OTHER ->
                LET vod_url == vod_info.url
                    vod_caption_url == RSplitHead(vod_url) \o <<"/", "captions.vtt">>
                IN  Return(<<ContentURIs(vod_url, vod_caption_url)>>)
    /\ pc' = "done"
    /\ UNCHANGED <<legistar_ev, show_info_uri, show_info, vod_id, vod_info, requests,
                   nameVars, voteVars, minutesVars>>

\* ---------------------------------------------------------- specifications
Init == NameInit /\ VoteInit /\ MinutesInit /\ MediaInit

NameNext == GetMinutesItem
VoteNext == GetVoteDecision
FixNext == FixEventMinutes
MinutesNext == GetEventMinutes
MediaNext ==
    \/ CallGetContentUris
    \/ ParseMediaUrl
    \/ FetchShow
    \/ UnpackVods
    \/ FetchVod
    \/ ExtractUrls

Next == NameNext \/ VoteNext \/ FixNext \/ MinutesNext \/ MediaNext

Spec == Init /\ [][Next]_vars
SpecName == Init /\ [][NameNext]_vars
SpecVote == Init /\ [][VoteNext]_vars
SpecFix == Init /\ [][FixNext]_vars
SpecMinutes == Init /\ [][MinutesNext]_vars
SpecMedia == Init /\ [][MediaNext]_vars

\* ------------------------------------------------------------- properties
Sep == <<":", " ">>
StartsWithSep(s) == Len(s) >= 2 /\ SubSeq(s, 1, 2) = Sep
EndsWithSep(s) == Len(s) >= 2 /\ SubSeq(s, Len(s) - 1, Len(s)) = Sep
HasEmptyPart(s) == \E i \in 1..(Len(s) - 3) : SubSeq(s, i, i + 3) = Sep \o Sep

\* the three name parts as the claim describes them
ClaimedAction(raw) ==
    LET a == str_simplified(raw)
    IN  CASE a = <<"Approved">>  -> <<>>
          [] a = <<"Postponed">> -> <<"Postpone">>
          [] a = <<"Referred">>  -> <<"Refer">>
          [] OTHER -> a
PartOrEmpty(p) == IF Truthy(p) THEN p ELSE <<>>
ClaimedParts(item) ==
    << PartOrEmpty(ClaimedAction(item.EventItemActionName)),
       PartOrEmpty(str_simplified(item.EventItemAgendaNumber)),
       PartOrEmpty(str_simplified(item.LEGISTAR_MINUTE_NAME)) >>
ClaimedName(item) ==
    LET p == ClaimedParts(item)
    IN  p[1] \o (IF p[1] # <<>> /\ (p[2] # <<>> \/ p[3] # <<>>) THEN Sep ELSE <<>>)
             \o p[2] \o (IF p[2] # <<>> /\ p[3] # <<>> THEN Sep ELSE <<>>)
             \o p[3]
FirstPart(item) ==
    LET p == ClaimedParts(item)
    IN  IF p[1] # <<>> THEN p[1] ELSE IF p[2] # <<>> THEN p[2] ELSE p[3]

NameIsJoin ==
    LET item == nameCall.legistar_ev_item
        mi == nameCall.minutes_item
    IN  /\ (ClaimedName(item) = <<>>) <=> (mi = Absent)
        /\ mi # Absent => mi.name = ClaimedName(item)

\* C8 as stated: the name is the ": "-join, in the order action, agenda number,
\* minutes name, of the non-empty simplified parts (action remapped); it never
\* starts or ends with ": ", holds no empty part, and is absent when all three
\* parts are empty.
C8_NameJoinNoSeparatorAtEnds ==
    nameCall.called =>
        /\ NameIsJoin
        /\ nameCall.minutes_item # Absent =>
             /\ ~StartsWithSep(nameCall.minutes_item.name)
             /\ ~EndsWithSep(nameCall.minutes_item.name)
             /\ ~HasEmptyPart(nameCall.minutes_item.name)

\* C8 as amended: the name is that join and is absent when all three parts are
\* empty; it never ends with ": "; it starts with ": ", or shows an empty part,
\* only when a joined part itself does (a raw minutes name ": a").
C8_NameJoin ==
    nameCall.called =>
        /\ NameIsJoin
        /\ nameCall.minutes_item # Absent =>
             LET name == nameCall.minutes_item.name
                 p == ClaimedParts(nameCall.legistar_ev_item)
             IN  /\ ~EndsWithSep(name)
                 /\ StartsWithSep(name) => StartsWithSep(FirstPart(nameCall.legistar_ev_item))
                 /\ HasEmptyPart(name) =>
                      \E i \in 1..3 : HasEmptyPart(p[i]) \/ StartsWithSep(p[i])

\* C8 witness: "Approved", "1", "a" gives "1: a", the remapped action skipped
C8_Witness ==
    /\ nameCall.called
    /\ nameCall.legistar_ev_item.EventItemActionName = <<" ", "Approved">>
    /\ nameCall.legistar_ev_item.EventItemAgendaNumber = <<"1">>
    /\ nameCall.legistar_ev_item.LEGISTAR_MINUTE_NAME = <<"a">>
    /\ nameCall.minutes_item # Absent
    /\ nameCall.minutes_item.name = <<"1", ":", " ", "a">>

IsNullVote(v) == v.LEGISTAR_VOTE_VAL_NAME = None /\ v.LEGISTAR_VOTE_VAL_ID = None

\* C3: a vote whose value name and value id are both null is decided APPROVE
\* under a PASSED item, REJECT under a FAILED item, and left undetermined
\* under any other item decision, None included.
C3_NullVoteInferred ==
    \A i \in 1..Len(voteCalls) :
        LET c == voteCalls[i]
        IN  IsNullVote(c.legistar_vote) =>
                c.decision = CASE c.minutes_item_decision = PASSED -> APPROVE
                               [] c.minutes_item_decision = FAILED -> REJECT
                               [] OTHER -> None

\* C3 witness: a null vote under a FAILED item was decided REJECT
C3_Witness ==
    \E i \in 1..Len(voteCalls) :
        /\ IsNullVote(voteCalls[i].legistar_vote)
        /\ voteCalls[i].minutes_item_decision = FAILED
        /\ voteCalls[i].decision = REJECT

\* C4: for a vote that carries a value (name or id non-null) the decision is
\* the generic matcher's, whatever the item decision: two calls with the same
\* vote return the same decision.
C4_ValueVoteIgnoresItemDecision ==
    \A i, j \in 1..Len(voteCalls) :
        LET c == voteCalls[i]
            d == voteCalls[j]
        IN  ~IsNullVote(c.legistar_vote) /\ c.legistar_vote = d.legistar_vote =>
                /\ c.decision = d.decision
                /\ c.decision = super_get_vote_decision(c.legistar_vote)

\* C4 witness: "Yes" was decided APPROVE under a FAILED item and under a PASSED one
C4_Witness ==
    /\ Len(voteCalls) = 2
    /\ voteCalls[1].legistar_vote.LEGISTAR_VOTE_VAL_NAME = "Yes"
    /\ voteCalls[2].legistar_vote = voteCalls[1].legistar_vote
    /\ voteCalls[1].minutes_item_decision = FAILED
    /\ voteCalls[2].minutes_item_decision = PASSED
    /\ voteCalls[1].decision = APPROVE
    /\ voteCalls[2].decision = APPROVE

C2_ResultStatusForced ==
    minutesCall.called =>
        \A k \in 1..Len(minutesCall.event_minutes) :
            LET out == minutesCall.event_minutes[k]
                raw == minutesCall.legistar_ev_items[out.index]
            IN  /\ out.matter # Absent
                /\ out.votes # <<>>
                /\ raw.LEGISTAR_MATTER_STATUS # None
                =>  /\ out.matter.result_status # None
                    /\ get_matter(raw).result_status = None
                         => out.matter.result_status = IN_PROGRESS

LookupFailed ==
    \/ urlparse_raises(legistar_ev.EventMedia)
    \/ \E i \in 1..Len(requests) : ~requests[i].ok
    \/ show_info.kind = "malformed"
    \/ vod_info.kind \in {"not_object", "no_vod", "vod_not_mapping", "no_url", "url_not_str"}

\* C1: get_content_uris never raises: every call returns, and it returns the
\* empty list whenever the media URL cannot be parsed, a fetch fails or a
\* payload lacks a key or has the wrong shape.
C1_NeverRaises ==
    pc = "done" =>
        /\ outcome.kind = "return"
        /\ LookupFailed => outcome = Return(<<>>)

\* C5: a media reference is returned only when the show lists exactly one
\* VOD; with none, or with more than one, the result is empty and no VOD
\* metadata is fetched.
C5_ExactlyOneVod ==
    /\ pc = "done" /\ show_info.kind = "ok" /\ Len(show_info.vods) # 1
         => outcome = Return(<<>>) /\ Len(requests) = 1
    /\ pc = "done" /\ outcome.kind = "return" /\ outcome.value # <<>>
         => show_info.kind = "ok" /\ Len(show_info.vods) = 1

\* C5 witness: a show listing two VODs ended in the empty list
C5_Witness ==
    /\ pc = "done"
    /\ show_info.kind = "ok"
    /\ Len(show_info.vods) = 2
    /\ outcome = Return(<<>>)

\* C6: the result is the empty list, or one reference whose video and caption
\* URLs are both non-empty.
C6_AllOrNothing ==
    pc = "done" /\ outcome.kind = "return" =>
        \/ outcome.value = <<>>
        \/ /\ Len(outcome.value) = 1
           /\ outcome.value[1].video_uri # <<>>
           /\ outcome.value[1].caption_uri # <<>>

\* the playable URL with its last path segment replaced by the captions file
ReplaceLastSegment(url) == SubSeq(url, 1, LastSlash(url)) \o <<"captions.vtt">>

\* C7: on success the caption URL is the playable URL with its last path
\* segment replaced by "captions.vtt", also for a URL without "/" or ending
\* with "/".
C7_CaptionReplacesLastSegment ==
    pc = "done" /\ outcome.kind = "return" /\ outcome.value # <<>> =>
        outcome.value[1].caption_uri = ReplaceLastSegment(outcome.value[1].video_uri)

\* C9: requests go out in chain order and only while every earlier step
\* succeeded: none without a media URL, none after a failed step, the VOD
\* request only after a show request that succeeded and listed exactly one
\* VOD id, and for that id; at most one request of each kind.
C9_RequestsInChainOrder ==
    /\ Len(requests) <= 2
    /\ pc # "idle" /\ ~Truthy(legistar_ev.EventMedia) =>
         requests = <<>> /\ pc = "done" /\ outcome = Return(<<>>)
    /\ urlparse_raises(legistar_ev.EventMedia) => requests = <<>>
    /\ Len(requests) >= 1 => requests[1].uri.endpoint = "shows"
    /\ \A i \in 1..Len(requests) : ~requests[i].ok => i = Len(requests) /\ pc = "done"
    /\ Len(requests) = 2 =>
         /\ requests[1].ok
         /\ show_info.kind = "ok"
         /\ Len(show_info.vods) = 1
         /\ requests[2].uri = [endpoint |-> "vods", id |-> show_info.vods[1]]

\* C9 witness: a call that issued the show request and then the VOD request
C9_Witness ==
    /\ pc = "done"
    /\ Len(requests) = 2
    /\ requests[2].uri.endpoint = "vods"
    /\ outcome.kind = "return"

====
